---- MODULE Spec2Model ----
(***************************************************************************)
(* Model of server/controllers/users.js: the four request handlers exists, *)
(* signin, updateToken and twoFactorAuthAndUpdateToken, together with the  *)
(* collaborators they call (identity store, rate limiter, second-factor    *)
(* verifiers, token issuer, notifier).                                     *)
(*                                                                         *)
(* twoFactorAuthAndUpdateToken is modelled step by step: one action per    *)
(* stretch of code between two awaits, so that invocations interleave      *)
(* exactly where the event loop lets them.                                 *)
(***************************************************************************)
EXTENDS Integers, Sequences, FiniteSets, TLC

-----------------------------------------------------------------------------
(* Bounds of the model *)

\* Number of twoFactorAuthAndUpdateToken invocations that may be in flight.
MaxInFlight == 2

\* Number of identity ids the directory can hold (two exist at start).
MaxUsers == 3

-----------------------------------------------------------------------------
(* JavaScript values *)

Undefined == "undefined"
NULL == "null"
\* A truthy request value whose typeof is not 'string' (a number in the JSON body).
NonString == "<number>"

\* The booleans true and false of a JSON request body or of the configuration.
JsTrue == "<true>"
JsFalse == "<false>"

\* JS truthiness, as used by `if (x)` and `!x`.
Truthy(x) == x \notin {Undefined, NULL, "", JsFalse}

\* typeof x
TypeOf(x) ==
  IF x = Undefined THEN "undefined"
  ELSE IF x = NonString THEN "number"
  ELSE IF x = NULL THEN "object"
  ELSE IF x \in {JsTrue, JsFalse} THEN "boolean"
  ELSE "string"

\* Number(req.jwtPayload.sub): the JWT subject is a decimal string.
NumberOf(s) ==
  CASE s = "1" -> 1
    [] s = "2" -> 2
    [] s = "3" -> 3
    [] OTHER   -> 99

-----------------------------------------------------------------------------
(* Identities *)

Ids == 1..MaxUsers

\* twoFactorAuthRecoveryCodes: null is modelled as the empty set (the verifier
\* treats a null and an empty set alike).
NullCodes == {}

NoUser ==
  [email |-> NULL, passwordHash |-> NULL, twoFactorAuthToken |-> NULL,
   twoFactorAuthRecoveryCodes |-> NullCodes]

\* The directory at start: identity 1 has a password, a TOTP secret and two
\* recovery codes; identity 2 has a password and no second factor.
InitialUsers ==
  (1 :> [email |-> "ada@x.co", passwordHash |-> "$2b$ada-pw",
         twoFactorAuthToken |-> "SECRET-1",
         twoFactorAuthRecoveryCodes |-> {"RC-1", "RC-2"}])
  @@
  (2 :> [email |-> "bob@x.co", passwordHash |-> "$2b$bob-pw",
         twoFactorAuthToken |-> NULL,
         twoFactorAuthRecoveryCodes |-> NullCodes])

-----------------------------------------------------------------------------
(* Collaborators outside controllers/users.js *)

\* lib/two-factor-authentication/totp validateTOTPToken(secret, code):
\* the code of the current time step for the secret; fails closed on no secret.
CurrentTotp(secret) ==
  CASE secret = "SECRET-1" -> "492039"
    [] OTHER               -> "------"

ValidateTOTPToken(secret, code) ==
  /\ secret # NULL
  /\ TypeOf(code) = "string"
  /\ code = CurrentTotp(secret)

\* lib/two-factor-authentication verifyTwoFactorAuthenticationRecoveryCode:
\* false for a null/empty stored set or a candidate that is not a string.
VerifyTwoFactorAuthenticationRecoveryCode(storedCodes, candidate) ==
  /\ TypeOf(candidate) = "string"
  /\ candidate \in storedCodes

\* lib/rate-limit RateLimit.hasReachedLimit(): read-only.
HasReachedLimit(count, limit) == count >= limit

\* lib/rate-limit RateLimit.registerCall(): the counter after the call (the
\* increment happens even on the call that exceeds the limit) ...
RegisterCallCount(count) == count + 1

\* ... and its answer: whether the count is still within the limit.
RegisterCallAllowed(count, limit) == RegisterCallCount(count) <= limit

\* models/User generateSessionToken({ sessionId }) and jwt({ scope, sessionId }).
NoToken == [sub |-> 0, scope |-> "none", sessionId |-> Undefined]

GenerateSessionToken(userId, sessionId) ==
  [sub |-> userId, scope |-> "session", sessionId |-> sessionId]

Jwt(userId, scope, sessionId) ==
  [sub |-> userId, scope |-> scope, sessionId |-> sessionId]

-----------------------------------------------------------------------------
(* State *)

VARIABLES
  users,      \* identity store: id -> identity record, for the ids that exist
  tfaCalls,   \* rate-limit store, keys user_2FA_endpoint_<userId>
  tfa,        \* the twoFactorAuthAndUpdateToken invocations, one per slot
  handled,    \* history: per key, requests of this window ended by fail()
  recTokens,  \* history: per key, session tokens sent on the recovery-code path
  config,     \* the configuration the process was started with
  signinCalls,\* rate-limit store, keys user_signin_attempt_ip_<ip>
  searchCalls,\* rate-limit store, keys user_email_search_ip_<ip>
  last        \* the latest invocation of exists, signin or updateToken:
              \* request, calls made and answer

vars == <<users, tfaCalls, tfa, handled, recTokens, config, signinCalls,
          searchCalls, last>>

\* What twoFactorAuthAndUpdateToken never touches, and what signin never touches.
webVars == <<config, signinCalls, searchCalls, last>>
tfaVars == <<tfaCalls, tfa, handled, recTokens>>

Procs == 1..MaxInFlight

-----------------------------------------------------------------------------
(* twoFactorAuthAndUpdateToken, lines 175-225 *)

\* new RateLimit(`user_2FA_endpoint_${userId}`, 10, ONE_HOUR_IN_SECONDS)
TwoFactorLimit == 10

\* Request inputs: req.jwtPayload and req.body.
JwtSubs == {"1", "2", "7"}
SessionIds == {Undefined, "sess-A"}
TotpInputs == {Undefined, "492039", "000000"}
RecoveryInputs == {Undefined, "RC-1", "RC-2", "RC-X", NonString}

TfaKeys == {NumberOf(s) : s \in JwtSubs}

TfaRequests ==
  [sub : JwtSubs, sessionId : SessionIds,
   twoFactorAuthenticatorCode : TotpInputs,
   twoFactorAuthenticationRecoveryCode : RecoveryInputs]

NoRequest ==
  [sub |-> "7", sessionId |-> Undefined,
   twoFactorAuthenticatorCode |-> Undefined,
   twoFactorAuthenticationRecoveryCode |-> Undefined]

IdleSlot ==
  [pc |-> "idle", req |-> NoRequest, userId |-> 0, user |-> NoUser,
   exc |-> "none", out |-> "none", token |-> NoToken, calls |-> <<>>,
   pre |-> NoUser, exhausted |-> FALSE]
\* pre and exhausted are history: the identity as stored, and whether the
\* subject's budget was used up, when the request arrived.

\* The exceptions the handler passes to fail().
HandlerFailures == {"Unauthorized", "ValidationFailed", "BadRequest"}

\* Mutant: the pre-check lets the request after the last allowed one through.
TfaPreCheck_OffByOne(userId) == tfaCalls[userId] > TwoFactorLimit

\* Line 188: if (await rateLimit.hasReachedLimit())
TfaPreCheck(userId) == HasReachedLimit(tfaCalls[userId], TwoFactorLimit)

\* Mutant: a failed TOTP check does not return, and falls through to line 223.
TfaVerify_NoReturn(user, req) ==
  IF Truthy(req.twoFactorAuthenticatorCode)
  THEN [next |-> "token", exc |-> "none", calls |-> <<"validateTOTPToken">>]
  ELSE IF Truthy(req.twoFactorAuthenticationRecoveryCode) THEN
    IF TypeOf(req.twoFactorAuthenticationRecoveryCode) # "string"
    THEN [next |-> "fail", exc |-> "ValidationFailed", calls |-> <<>>]
    ELSE IF VerifyTwoFactorAuthenticationRecoveryCode(
              user.twoFactorAuthRecoveryCodes,
              req.twoFactorAuthenticationRecoveryCode)
    THEN [next |-> "update", exc |-> "none",
          calls |-> <<"verifyTwoFactorAuthenticationRecoveryCode">>]
    ELSE [next |-> "fail", exc |-> "Unauthorized",
          calls |-> <<"verifyTwoFactorAuthenticationRecoveryCode">>]
  ELSE [next |-> "fail", exc |-> "BadRequest", calls |-> <<>>]

\* Mutant: the typeof test of line 207 is missing, so a recovery code that is
\* not a string goes to the verifier and fails there.
TfaVerify_NoTypeCheck(user, req) ==
  IF Truthy(req.twoFactorAuthenticatorCode) THEN
    IF ValidateTOTPToken(user.twoFactorAuthToken, req.twoFactorAuthenticatorCode)
    THEN [next |-> "token", exc |-> "none", calls |-> <<"validateTOTPToken">>]
    ELSE [next |-> "fail", exc |-> "Unauthorized", calls |-> <<"validateTOTPToken">>]
  ELSE IF Truthy(req.twoFactorAuthenticationRecoveryCode) THEN
    IF VerifyTwoFactorAuthenticationRecoveryCode(
         user.twoFactorAuthRecoveryCodes,
         req.twoFactorAuthenticationRecoveryCode)
    THEN [next |-> "update", exc |-> "none",
          calls |-> <<"verifyTwoFactorAuthenticationRecoveryCode">>]
    ELSE [next |-> "fail", exc |-> "Unauthorized",
          calls |-> <<"verifyTwoFactorAuthenticationRecoveryCode">>]
  ELSE [next |-> "fail", exc |-> "BadRequest", calls |-> <<>>]

\* Mutant: when the TOTP check fails and a recovery code was supplied too, the
\* recovery code is tried.
TfaVerify_TotpThenRecovery(user, req) ==
  IF /\ Truthy(req.twoFactorAuthenticatorCode)
     /\ ValidateTOTPToken(user.twoFactorAuthToken, req.twoFactorAuthenticatorCode)
  THEN [next |-> "token", exc |-> "none", calls |-> <<"validateTOTPToken">>]
  ELSE IF Truthy(req.twoFactorAuthenticationRecoveryCode) THEN
    IF TypeOf(req.twoFactorAuthenticationRecoveryCode) # "string"
    THEN [next |-> "fail", exc |-> "ValidationFailed", calls |-> <<>>]
    ELSE IF VerifyTwoFactorAuthenticationRecoveryCode(
              user.twoFactorAuthRecoveryCodes,
              req.twoFactorAuthenticationRecoveryCode)
    THEN [next |-> "update", exc |-> "none",
          calls |-> <<"verifyTwoFactorAuthenticationRecoveryCode">>]
    ELSE [next |-> "fail", exc |-> "Unauthorized",
          calls |-> <<"verifyTwoFactorAuthenticationRecoveryCode">>]
  ELSE IF Truthy(req.twoFactorAuthenticatorCode)
  THEN [next |-> "fail", exc |-> "Unauthorized", calls |-> <<"validateTOTPToken">>]
  ELSE [next |-> "fail", exc |-> "BadRequest", calls |-> <<>>]

\* Lines 199-221: which code is examined and where the handler goes next.
\*   next = "token"  : fall through to generateSessionToken (line 223)
\*   next = "update" : recovery code verified, user.update comes first (line 218)
\*   next = "fail"   : return fail(exc)
TfaVerify(user, req) ==
  IF Truthy(req.twoFactorAuthenticatorCode) THEN
    IF ValidateTOTPToken(user.twoFactorAuthToken, req.twoFactorAuthenticatorCode)
    THEN [next |-> "token", exc |-> "none", calls |-> <<"validateTOTPToken">>]
    ELSE [next |-> "fail", exc |-> "Unauthorized", calls |-> <<"validateTOTPToken">>]
  ELSE IF Truthy(req.twoFactorAuthenticationRecoveryCode) THEN
    IF TypeOf(req.twoFactorAuthenticationRecoveryCode) # "string"
    THEN [next |-> "fail", exc |-> "ValidationFailed", calls |-> <<>>]
    ELSE IF VerifyTwoFactorAuthenticationRecoveryCode(
              user.twoFactorAuthRecoveryCodes,
              req.twoFactorAuthenticationRecoveryCode)
    THEN [next |-> "update", exc |-> "none",
          calls |-> <<"verifyTwoFactorAuthenticationRecoveryCode">>]
    ELSE [next |-> "fail", exc |-> "Unauthorized",
          calls |-> <<"verifyTwoFactorAuthenticationRecoveryCode">>]
  ELSE [next |-> "fail", exc |-> "BadRequest", calls |-> <<>>]

\* The request presents a recovery code and no TOTP code.
RecoveryOnly(req) ==
  /\ ~Truthy(req.twoFactorAuthenticatorCode)
  /\ Truthy(req.twoFactorAuthenticationRecoveryCode)

\* The invocation in slot p ends with outcome out; the histories count the
\* requests that ended with an exception of the failure handler, and the
\* tokens sent to requests that presented a recovery code alone.
Finish(p, out, token, call) ==
  /\ tfa' = [tfa EXCEPT ![p].pc = "done", ![p].out = out, ![p].token = token,
                        ![p].calls = @ \o call]
  /\ handled' = IF out \in HandlerFailures
                THEN [handled EXCEPT ![tfa[p].userId] = @ + 1]
                ELSE handled
  /\ recTokens' = IF token # NoToken /\ RecoveryOnly(tfa[p].req)
                  THEN [recTokens EXCEPT ![tfa[p].userId] = @ + 1]
                  ELSE recTokens

\* Lines 175-190: a request arrives; the limiter's pre-check.
TfaBegin(p, r) ==
  /\ tfa[p].pc \in {"idle", "done"}
  /\ LET userId == NumberOf(r.sub)
         pre == IF userId \in DOMAIN users THEN users[userId] ELSE NoUser
         slot == [IdleSlot EXCEPT !.req = r, !.userId = userId, !.pre = pre,
                                  !.exhausted = (tfaCalls[userId] >= TwoFactorLimit),
                                  !.calls = <<"hasReachedLimit">>]
     IN  IF TfaPreCheck(userId)
         THEN tfa' = [tfa EXCEPT ![p] = [slot EXCEPT !.pc = "done",
                                                    !.out = "TooManyRequests"]]
         ELSE tfa' = [tfa EXCEPT ![p] = [slot EXCEPT !.pc = "find"]]
  /\ UNCHANGED <<users, tfaCalls, handled, recTokens, webVars>>

\* Lines 192-221: User.findByPk resolves, then the code checks run synchronously.
TfaFind(p) ==
  /\ tfa[p].pc = "find"
  /\ IF tfa[p].userId \notin DOMAIN users
     THEN Finish(p, "passthrough", NoToken, <<"findByPk">>)
     ELSE LET user == users[tfa[p].userId]
              v == TfaVerify(user, tfa[p].req)
          IN  /\ tfa' = [tfa EXCEPT ![p].pc = v.next, ![p].exc = v.exc,
                                    ![p].user = user,
                                    ![p].calls = @ \o <<"findByPk">> \o v.calls]
              /\ UNCHANGED <<handled, recTokens>>
  /\ UNCHANGED <<users, tfaCalls, webVars>>

\* Mutant: the failure handler forwards the exception without registerCall().
TfaFail_NoRegister(p) ==
  /\ tfa[p].pc = "fail"
  /\ Finish(p, tfa[p].exc, NoToken, <<>>)
  /\ UNCHANGED <<users, tfaCalls, webVars>>

\* Lines 183-186: fail = async exception => { await registerCall(); next(exception) }
TfaFail(p) ==
  /\ tfa[p].pc = "fail"
  /\ tfaCalls' = [tfaCalls EXCEPT ![tfa[p].userId] = RegisterCallCount(@)]
  /\ Finish(p, tfa[p].exc, NoToken, <<"registerCall">>)
  /\ UNCHANGED <<users, webVars>>

\* Mutant: the update clears the recovery codes and leaves the TOTP secret.
TfaUpdate_KeepSecret(p, ok) ==
  /\ tfa[p].pc = "update"
  /\ IF ok
     THEN /\ users' = [users EXCEPT
                         ![tfa[p].userId].twoFactorAuthRecoveryCodes = NullCodes]
          /\ tfa' = [tfa EXCEPT ![p].pc = "token", ![p].calls = @ \o <<"update">>]
          /\ UNCHANGED <<handled, recTokens>>
     ELSE /\ Finish(p, "rejected", NoToken, <<"update">>)
          /\ UNCHANGED users
  /\ UNCHANGED <<tfaCalls, webVars>>

\* Mutant: a failure of the update is swallowed and the handler goes on.
TfaUpdate_IgnoreFailure(p, ok) ==
  /\ tfa[p].pc = "update"
  /\ users' = IF ok
              THEN [users EXCEPT
                      ![tfa[p].userId].twoFactorAuthRecoveryCodes = NullCodes,
                      ![tfa[p].userId].twoFactorAuthToken = NULL]
              ELSE users
  /\ tfa' = [tfa EXCEPT ![p].pc = "token", ![p].calls = @ \o <<"update">>]
  /\ UNCHANGED <<handled, recTokens, tfaCalls, webVars>>

\* Line 218: await user.update({ twoFactorAuthRecoveryCodes: null,
\* twoFactorAuthToken: null }). The store answers ok, or fails (Conflict): the
\* promise of the handler is then rejected, with no response and no next().
TfaUpdate(p, ok) ==
  /\ tfa[p].pc = "update"
  /\ IF ok
     THEN /\ users' = [users EXCEPT
                         ![tfa[p].userId].twoFactorAuthRecoveryCodes = NullCodes,
                         ![tfa[p].userId].twoFactorAuthToken = NULL]
          /\ tfa' = [tfa EXCEPT ![p].pc = "token", ![p].calls = @ \o <<"update">>]
          /\ UNCHANGED <<handled, recTokens>>
     ELSE /\ Finish(p, "rejected", NoToken, <<"update">>)
          /\ UNCHANGED users
  /\ UNCHANGED <<tfaCalls, webVars>>

\* Lines 223-224: generateSessionToken({ sessionId }) and res.send({ token }).
TfaToken(p) ==
  /\ tfa[p].pc = "token"
  /\ Finish(p, "token",
            GenerateSessionToken(tfa[p].userId, tfa[p].req.sessionId),
            <<"generateSessionToken">>)
  /\ UNCHANGED <<users, tfaCalls, webVars>>

\* lib/rate-limit: the fixed window of a key ends and its counter resets.
WindowExpire(k) ==
  /\ tfaCalls[k] > 0
  /\ tfaCalls' = [tfaCalls EXCEPT ![k] = 0]
  /\ handled' = [handled EXCEPT ![k] = 0]
  /\ UNCHANGED <<users, tfa, recTokens, webVars>>

-----------------------------------------------------------------------------
(* signin, lines 59-148 *)

\* config.limits.userSigninAttemptsPerHourPerIp
SigninLimit == 1

\* config.twoFactorAuthentication.enabled (a boolean, or a string from the
\* environment) and config.env: a production deployment with the second
\* factor switched on, and a development one with it switched off.
DefaultConfig == [twoFactorAuthenticationEnabled |-> JsTrue, env |-> "production"]

Configs ==
  {DefaultConfig,
   [twoFactorAuthenticationEnabled |-> "false", env |-> "development"]}

\* lib/utils parseToBoolean
ParseToBoolean(v) == v \in {JsTrue, "true", "1"}

\* String.prototype.toLowerCase, on the addresses of the model.
ToLowerCase(str) ==
  CASE str = "Bob@X.co" -> "bob@x.co"
    [] OTHER            -> str

\* bcrypt: the hash of a password, and compare(password, hash).
BcryptHash(password) ==
  CASE password = "ada-pw" -> "$2b$ada-pw"
    [] password = "bob-pw" -> "$2b$bob-pw"
    [] OTHER               -> "$2b$"

BcryptCompare(password, hash) ==
  /\ TypeOf(password) = "string"
  /\ TypeOf(hash) = "string"
  /\ BcryptHash(password) = hash

\* user.email.match(/.*test.*@opencollective.com$/), on the addresses of the model.
IsTestEmail(email) == email \in {"e2e-test@opencollective.com"}

\* Request inputs: req.ip and req.body. createProfile is left out (and then
\* true by the default of line 60) or false.
Ips == {"203.0.113.7"}
SigninEmails == {"ada@x.co", "Bob@X.co", "new@x.co", "e2e-test@opencollective.com"}
PasswordInputs == {Undefined, "", "ada-pw", "bob-pw"}

SigninRequests ==
  [ip : Ips,
   user : [email : SigninEmails, password : PasswordInputs],
   sendLink : {Undefined, JsTrue},
   resetPassword : {Undefined, JsTrue},
   createProfile : {Undefined, JsFalse}]

NoSigninRequest ==
  [ip |-> "203.0.113.7", user |-> [email |-> "ada@x.co", password |-> Undefined],
   sendLink |-> Undefined, resetPassword |-> Undefined, createProfile |-> Undefined]

\* An answer: res.status(status).send(body), or next(e) (kind "error").
Response(status, kind, token, redirect) ==
  [status |-> status, kind |-> kind, token |-> token, redirect |-> redirect]

NoResponse == Response(0, "none", NoToken, FALSE)

\* userId is the id of the identity the handler went on with (0 for none),
\* created whether createUserWithCollective made it, sent the notification
\* dispatched, calls the collaborator calls in order, sends the bodies handed
\* to res.send in order, res what the caller receives (the first of them: a
\* response is sent once), delivered whether emailLib.send resolved.
NoLast ==
  [op |-> "none", req |-> NoSigninRequest, userId |-> 0, created |-> FALSE,
   res |-> NoResponse, sent |-> "none", calls |-> <<>>, sends |-> <<>>,
   delivered |-> TRUE]

\* models.User.findOne({ where: { email } }) in a directory: the id of the
\* identity, 0 for none.
FindOneIn(dir, email) ==
  IF \E i \in DOMAIN dir : dir[i].email = email
  THEN CHOOSE i \in DOMAIN dir : dir[i].email = email
  ELSE 0

FindOne(email) == FindOneIn(users, email)

\* models.User.createUserWithCollective(userData): a new identity with the
\* normalised address, no password and no second factor, under the next id.
CreateUserWithCollective(userData) ==
  [email |-> ToLowerCase(userData.email), passwordHash |-> NULL,
   twoFactorAuthToken |-> NULL, twoFactorAuthRecoveryCodes |-> NullCodes]

NextIdIn(dir) == CHOOSE i \in Ids \ DOMAIN dir : \A j \in Ids \ DOMAIN dir : i <= j

NextId == NextIdIn(users)

\* Mutant: createProfile has no default.
CreateProfile_NoDefault(req) == req.createProfile

\* Line 60: createProfile = true when the body leaves it out.
CreateProfile(req) ==
  IF req.createProfile = Undefined THEN JsTrue ELSE req.createProfile

\* Lines 62-68: if (!(await rateLimit.registerCall())) return 403. (The store
\* answers in this model, so ignoreCacheErrors = true changes nothing.)
SigninAdmitted(count) == RegisterCallAllowed(count, SigninLimit)

\* Mutant: the password challenge is skipped for a request without password.
PasswordChallenge_OnlyWithPassword(user, req) ==
  /\ Truthy(user.passwordHash)
  /\ ~Truthy(req.sendLink)
  /\ ~Truthy(req.resetPassword)
  /\ Truthy(req.user.password)

\* Line 84: if (user.passwordHash && !sendLink && !resetPassword)
PasswordChallenge(user, req) ==
  /\ Truthy(user.passwordHash)
  /\ ~Truthy(req.sendLink)
  /\ ~Truthy(req.resetPassword)

\* Mutant: bcrypt.compare is not awaited, and the pending promise is truthy.
ValidPassword_NoAwait(user, req) == TRUE

\* Line 91: validPassword = await bcrypt.compare(password, user.passwordHash)
ValidPassword(user, req) == BcryptCompare(req.user.password, user.passwordHash)

\* Mutant: the comparison with null is inverted.
TwoFactorRequired_Inverted(user) ==
  /\ ParseToBoolean(config.twoFactorAuthenticationEnabled)
  /\ user.twoFactorAuthToken = NULL

\* Lines 100-101: twoFactorAuthenticationEnabled && user.twoFactorAuthToken !== null
TwoFactorRequired(user) ==
  /\ ParseToBoolean(config.twoFactorAuthenticationEnabled)
  /\ user.twoFactorAuthToken # NULL

\* Lines 83-144: the answer for the identity the handler goes on with, the
\* notification dispatched and the calls made. delivered: emailLib.send
\* resolves (otherwise it rejects, and the catch of line 145 calls next(e)).
SigninAnswer(userId, user, req, delivered) ==
  IF PasswordChallenge(user, req) THEN
    IF ~Truthy(req.user.password)
    THEN [res |-> Response(403, "PASSWORD_REQUIRED", NoToken, FALSE),
          sent |-> "none", calls |-> <<"res.send">>]
    ELSE IF ~ValidPassword(user, req)
    THEN [res |-> Response(401, "Invalid password", NoToken, FALSE),
          sent |-> "none", calls |-> <<"bcrypt.compare", "res.send">>]
    ELSE IF TwoFactorRequired(user)
    THEN [res |-> Response(200, "token", Jwt(userId, "twofactorauth", Undefined), FALSE),
          sent |-> "none", calls |-> <<"bcrypt.compare", "jwt", "res.send">>]
    ELSE [res |-> Response(200, "token", GenerateSessionToken(userId, Undefined), FALSE),
          sent |-> "none",
          calls |-> <<"bcrypt.compare", "generateSessionToken", "res.send">>]
  ELSE IF Truthy(req.resetPassword) THEN
    IF delivered
    THEN [res |-> Response(200, "success", NoToken, FALSE),
          sent |-> "USER_RESET_PASSWORD",
          calls |-> <<"generateResetPasswordLink", "emailLib.send", "res.send">>]
    ELSE [res |-> Response(0, "error", NoToken, FALSE),
          sent |-> "none",
          calls |-> <<"generateResetPasswordLink", "emailLib.send", "next">>]
  ELSE
    IF ~delivered
    THEN [res |-> Response(0, "error", NoToken, FALSE),
          sent |-> "none",
          calls |-> <<"getCollective", "generateLoginLink", "emailLib.send", "next">>]
    ELSE IF config.env # "production" /\ IsTestEmail(user.email)
    THEN [res |-> Response(200, "success", NoToken, TRUE),
          sent |-> "USER_NEW_TOKEN",
          calls |-> <<"getCollective", "generateLoginLink", "emailLib.send", "res.send">>]
    ELSE [res |-> Response(200, "success", NoToken, FALSE),
          sent |-> "USER_NEW_TOKEN",
          calls |-> <<"getCollective", "generateLoginLink", "emailLib.send", "res.send">>]

\* The handler reaches emailLib.send for this request.
SendsEmail(req) ==
  LET id0 == FindOne(ToLowerCase(req.user.email))
  IN  /\ SigninAdmitted(signinCalls[req.ip])
      /\ id0 # 0 \/ Truthy(CreateProfile(req))
      /\ ~PasswordChallenge(IF id0 = 0 THEN CreateUserWithCollective(req.user)
                                       ELSE users[id0], req)

\* Lines 59-148 against a directory dir and a counter at count: the directory
\* after the invocation and the record of the invocation.
SigninResult(dir, count, req, delivered) ==
  LET id0 == FindOneIn(dir, ToLowerCase(req.user.email))
      user0 == IF id0 = 0 THEN NoUser ELSE dir[id0]
      admitted == SigninAdmitted(count)
      creates == admitted /\ id0 = 0 /\ Truthy(CreateProfile(req))
      userId == IF creates THEN NextIdIn(dir) ELSE id0
      user == IF creates THEN CreateUserWithCollective(req.user) ELSE user0
      rec == [NoLast EXCEPT !.op = "signin", !.req = req, !.delivered = delivered]
  IN  [users |-> IF creates THEN dir @@ (userId :> user) ELSE dir,
       last |->
         IF ~admitted THEN
           [rec EXCEPT !.res = Response(403, "Rate limit exceeded", NoToken, FALSE),
                       !.sends = <<Response(403, "Rate limit exceeded", NoToken, FALSE)>>,
                       !.calls = <<"registerCall", "res.send">>]
         ELSE IF id0 = 0 /\ ~Truthy(CreateProfile(req)) THEN
           [rec EXCEPT !.res = Response(400, "EMAIL_DOES_NOT_EXIST", NoToken, FALSE),
                       !.sends = <<Response(400, "EMAIL_DOES_NOT_EXIST", NoToken, FALSE)>>,
                       !.calls = <<"registerCall", "findOne", "res.send">>]
         ELSE
           LET a == SigninAnswer(userId, user, req, delivered)
           IN  [rec EXCEPT !.userId = userId, !.created = creates,
                           !.res = a.res, !.sent = a.sent,
                           !.sends = IF a.res.kind = "error" THEN <<>> ELSE <<a.res>>,
                           !.calls = <<"registerCall", "findOne">>
                                     \o (IF creates THEN <<"createUserWithCollective">>
                                                    ELSE <<>>)
                                     \o a.calls]]

\* Lines 59-148, one invocation. The model follows a window of a key up to its
\* first rejected request; the directory holds at most MaxUsers identities;
\* delivered is drawn only where emailLib.send is called.
Signin(req, delivered) ==
  LET count == signinCalls[req.ip]
      creates == /\ SigninAdmitted(count)
                 /\ FindOne(ToLowerCase(req.user.email)) = 0
                 /\ Truthy(CreateProfile(req))
      r == SigninResult(users, count, req, delivered)
  IN  /\ count <= SigninLimit
      /\ delivered \/ SendsEmail(req)
      /\ creates => Ids \ DOMAIN users # {}
      /\ signinCalls' = [signinCalls EXCEPT ![req.ip] = RegisterCallCount(@)]
      /\ users' = r.users
      /\ last' = r.last
      /\ UNCHANGED <<config, searchCalls, tfaVars>>

\* lib/rate-limit: the fixed window of a sign-in key ends and its counter resets.
SigninWindowExpire(ip) ==
  /\ signinCalls[ip] > 0
  /\ signinCalls' = [signinCalls EXCEPT ![ip] = 0]
  /\ UNCHANGED <<users, config, searchCalls, last, tfaVars>>

-----------------------------------------------------------------------------
(* exists, lines 29-50 *)

\* config.limits.searchEmailPerHourPerIp
SearchLimit == 2

\* Request inputs: req.ip and req.query.email.
SearchIps == {"203.0.113.7", "198.51.100.9"}
SearchEmails == {"ada@x.co", "Bob@X.co", "nobody@x.co", "not-an-email"}

ExistsRequests == [ip : SearchIps, email : SearchEmails]

\* lib/utils isValidEmail, on the addresses of the model.
IsValidEmail(email) == email \notin {"not-an-email"}

\* res.send({ exists }) and res.send({ error: { message: 'Rate limit exceeded' } }),
\* both with the default status.
ExistsBody(found) ==
  Response(200, IF found THEN "exists: true" ELSE "exists: false", NoToken, FALSE)

RateLimitNotice == Response(200, "Rate limit exceeded", NoToken, FALSE)

\* Lines 34-39: if (!(await rateLimit.registerCall()))
SearchAdmitted(count) == RegisterCallAllowed(count, SearchLimit)

\* Lines 39-48: the bodies handed to res.send, in order. The send of line 40
\* is not returned, so the handler goes on to the send of line 48.
ExistsSends(admitted, found) ==
  IF admitted
  THEN <<ExistsBody(found)>>
  ELSE <<RateLimitNotice, ExistsBody(found)>>

\* Lines 29-50, one invocation. A malformed address is answered before the
\* rate limiter is built. The model follows a window of a key up to its first
\* request over the limit.
Exists(req) ==
  LET email == ToLowerCase(req.email)
      rec == [NoLast EXCEPT !.op = "exists", !.req = req]
  IN  IF ~IsValidEmail(email)
      THEN /\ last' = [rec EXCEPT !.res = ExistsBody(FALSE),
                                  !.sends = <<ExistsBody(FALSE)>>,
                                  !.calls = <<"isValidEmail", "res.send">>]
           /\ UNCHANGED <<users, config, signinCalls, searchCalls, tfaVars>>
      ELSE LET count == searchCalls[req.ip]
               admitted == SearchAdmitted(count)
               id0 == FindOne(email)
               sends == ExistsSends(admitted, id0 # 0)
           IN  /\ count <= SearchLimit
               /\ searchCalls' = [searchCalls EXCEPT ![req.ip] = RegisterCallCount(@)]
               /\ last' = [rec EXCEPT
                             !.userId = id0,
                             !.res = Head(sends),
                             !.sends = sends,
                             !.calls = <<"isValidEmail", "registerCall">>
                                       \o (IF admitted THEN <<>> ELSE <<"res.send">>)
                                       \o <<"findOne", "res.send">>]
               /\ UNCHANGED <<users, config, signinCalls, tfaVars>>

\* lib/rate-limit: the fixed window of an email-search key ends and its counter
\* resets.
SearchWindowExpire(ip) ==
  /\ searchCalls[ip] > 0
  /\ searchCalls' = [searchCalls EXCEPT ![ip] = 0]
  /\ UNCHANGED <<users, config, signinCalls, last, tfaVars>>

-----------------------------------------------------------------------------
(* updateToken, lines 158-170 *)

\* req.jwtPayload: absent, or the claims of the incoming token.
JwtPayloads ==
  {[present |-> FALSE, sessionId |-> Undefined],
   [present |-> TRUE, sessionId |-> Undefined],
   [present |-> TRUE, sessionId |-> "sess-A"]}

\* req.remoteUser is the identity the incoming token authenticated.
UpdateTokenRequests == [remoteUser : DOMAIN users, jwtPayload : JwtPayloads]

\* req.jwtPayload?.sessionId
SessionIdOf(jwtPayload) ==
  IF jwtPayload.present THEN jwtPayload.sessionId ELSE Undefined

\* Mutant: the comparison with null is inverted.
RefreshNeedsTwoFactor_Inverted(user) ==
  /\ ParseToBoolean(config.twoFactorAuthenticationEnabled)
  /\ user.twoFactorAuthToken = NULL

\* Lines 159-160: twoFactorAuthenticationEnabled && req.remoteUser.twoFactorAuthToken !== null
RefreshNeedsTwoFactor(user) ==
  /\ ParseToBoolean(config.twoFactorAuthenticationEnabled)
  /\ user.twoFactorAuthToken # NULL

\* Lines 159-169, one invocation.
UpdateToken(req) ==
  LET user == users[req.remoteUser]
      sessionId == SessionIdOf(req.jwtPayload)
      twoFactor == RefreshNeedsTwoFactor(user)
      token == IF twoFactor
               THEN Jwt(req.remoteUser, "twofactorauth", sessionId)
               ELSE GenerateSessionToken(req.remoteUser, sessionId)
      res == Response(200, "token", token, FALSE)
  IN  /\ last' = [NoLast EXCEPT
                    !.op = "updateToken", !.req = req, !.userId = req.remoteUser,
                    !.res = res, !.sends = <<res>>,
                    !.calls = <<IF twoFactor THEN "jwt" ELSE "generateSessionToken",
                                "res.send">>]
      /\ UNCHANGED <<users, config, signinCalls, searchCalls, tfaVars>>

-----------------------------------------------------------------------------
(* Specifications *)

Init ==
  /\ config \in Configs
  /\ signinCalls = [ip \in Ips |-> 0]
  /\ searchCalls = [ip \in SearchIps |-> 0]
  /\ last = NoLast
  /\ users = InitialUsers
  /\ tfaCalls = [k \in TfaKeys |-> 0]
  /\ tfa = [p \in Procs |-> IdleSlot]
  /\ handled = [k \in TfaKeys |-> 0]
  /\ recTokens = [k \in TfaKeys |-> 0]

\* The handlers that run to their answer in one step.
Next ==
  \/ \E req \in SigninRequests : \E delivered \in BOOLEAN :
       Signin(req, delivered)
  \/ \E ip \in Ips : SigninWindowExpire(ip)

Spec == Init /\ [][Next]_vars

\* exists and updateToken, which run to their answer in one step too.
NextFlows ==
  \/ \E req \in ExistsRequests : Exists(req)
  \/ \E ip \in SearchIps : SearchWindowExpire(ip)
  \/ \E req \in UpdateTokenRequests : UpdateToken(req)

SpecFlows == Init /\ [][NextFlows]_vars

\* twoFactorAuthAndUpdateToken reads no configuration.
InitTfa == Init /\ config = DefaultConfig

\* Second-factor verification requests served one after another (slot 1 only).
NextTfa ==
  \/ \E r \in TfaRequests : TfaBegin(1, r)
  \/ TfaFind(1)
  \/ TfaFail(1)
  \/ \E ok \in BOOLEAN : TfaUpdate(1, ok)
  \/ TfaToken(1)
  \/ \E k \in TfaKeys : WindowExpire(k)

SpecTfa == InitTfa /\ [][NextTfa]_vars

\* Second-factor verification requests of one subject served concurrently: the
\* invocations of all slots interleave at their awaits.
ConcRequests ==
  {r \in TfaRequests :
     /\ r.sub = "1"
     /\ r.sessionId = "sess-A"
     /\ \/ /\ r.twoFactorAuthenticatorCode = Undefined
           /\ r.twoFactorAuthenticationRecoveryCode \in {"RC-1", "RC-2", "RC-X"}
        \/ /\ r.twoFactorAuthenticatorCode = "000000"
           /\ r.twoFactorAuthenticationRecoveryCode = Undefined}

NextTfaConc ==
  \/ \E p \in Procs : \E r \in ConcRequests : TfaBegin(p, r)
  \/ \E p \in Procs : TfaFind(p)
  \/ \E p \in Procs : TfaFail(p)
  \/ \E p \in Procs : \E ok \in BOOLEAN : TfaUpdate(p, ok)
  \/ \E p \in Procs : TfaToken(p)
  \/ \E k \in TfaKeys : WindowExpire(k)

SpecTfaConc == InitTfa /\ [][NextTfaConc]_vars

-----------------------------------------------------------------------------
(* Properties of twoFactorAuthAndUpdateToken *)

Done(p) == tfa[p].pc = "done"

TotpCode(p) == tfa[p].req.twoFactorAuthenticatorCode
RecoveryCode(p) == tfa[p].req.twoFactorAuthenticationRecoveryCode

\* The identity of the request existed when the request arrived.
Existing(p) == tfa[p].pre # NoUser

\* The identity's security fields are cleared.
Cleared(u) ==
  /\ u.twoFactorAuthToken = NULL
  /\ u.twoFactorAuthRecoveryCodes = NullCodes

\* The request arrived after a recovery code of its identity had been consumed:
\* the identity started with a recovery set and had none left at arrival.
Later(p) ==
  /\ tfa[p].userId \in DOMAIN InitialUsers
  /\ InitialUsers[tfa[p].userId].twoFactorAuthRecoveryCodes # NullCodes
  /\ Cleared(tfa[p].pre)

\* The request presents a recovery code that is in the stored set at arrival.
PresentsCorrectRecoveryCode(p) ==
  RecoveryCode(p) \in tfa[p].pre.twoFactorAuthRecoveryCodes

\* C1 as claimed: served one after another, the first request presenting a
\* correct recovery code succeeds and clears the recovery codes and the TOTP
\* secret, and every later request presenting a recovery code or a TOTP code
\* fails with Unauthorized and gets no token. (Read in the claim's favour: the
\* recovery code comes alone and as a string, and the identity store accepts
\* the update.)
C1_AsClaimed ==
  Done(1) =>
    /\ (/\ PresentsCorrectRecoveryCode(1)
        /\ RecoveryOnly(tfa[1].req)
        /\ tfa[1].out # "rejected") =>
          /\ tfa[1].out = "token"
          /\ Cleared(users[tfa[1].userId])
    /\ (/\ Later(1)
        /\ \/ Truthy(TotpCode(1))
           \/ /\ Truthy(RecoveryCode(1))
              /\ TypeOf(RecoveryCode(1)) = "string") =>
          /\ tfa[1].out = "Unauthorized"
          /\ tfa[1].token = NoToken

\* C1 as amended: served one after another, the first request that presents a
\* correct recovery code and no TOTP code, arrives with the subject's budget
\* not exhausted and has its identity update completed, succeeds and clears
\* the recovery codes and the TOTP secret; every later request gets no token:
\* it fails with TooManyRequests exactly when the budget was exhausted at its
\* arrival, and otherwise with Unauthorized when it presents a TOTP code or a
\* string recovery code.
C1_RecoveryCodeOneTime ==
  Done(1) =>
    /\ (/\ PresentsCorrectRecoveryCode(1)
        /\ RecoveryOnly(tfa[1].req)
        /\ ~tfa[1].exhausted
        /\ tfa[1].out # "rejected") =>
          /\ tfa[1].out = "token"
          /\ tfa[1].token # NoToken
          /\ Cleared(users[tfa[1].userId])
    /\ Later(1) =>
          /\ tfa[1].token = NoToken
          /\ tfa[1].out \in HandlerFailures \cup {"TooManyRequests"}
          /\ tfa[1].out = "TooManyRequests" <=> tfa[1].exhausted
          /\ (/\ ~tfa[1].exhausted
              /\ \/ Truthy(TotpCode(1))
                 \/ /\ Truthy(RecoveryCode(1))
                    /\ TypeOf(RecoveryCode(1)) = "string") =>
                tfa[1].out = "Unauthorized"

\* C1 witness: after a recovery code was consumed, a request presenting the
\* other, formerly valid recovery code has failed with Unauthorized.
C1_Witness ==
  /\ Done(1)
  /\ Later(1)
  /\ RecoveryOnly(tfa[1].req)
  /\ RecoveryCode(1) \in InitialUsers[tfa[1].userId].twoFactorAuthRecoveryCodes
  /\ tfa[1].out = "Unauthorized"
  /\ recTokens[tfa[1].userId] = 1

\* C2: under any interleaving of concurrent requests of one identity, at most
\* one request that presents a recovery code results in a session token.
C2_AtMostOneRecoveryToken ==
  \A k \in TfaKeys : recTokens[k] <= 1

\* C4: a token is sent only by an invocation whose TOTP code or recovery code
\* verified against the identity it read; the token is session-scope and
\* carries the sessionId of the incoming token; an invocation ending in
\* TooManyRequests, Unauthorized, ValidationFailed, BadRequest or not-found
\* sends no token.
C4_TokenOnlyAfterVerification ==
  \A p \in Procs :
    /\ tfa[p].token # NoToken =>
          /\ Done(p)
          /\ tfa[p].out = "token"
          /\ tfa[p].token = [sub |-> NumberOf(tfa[p].req.sub), scope |-> "session",
                             sessionId |-> tfa[p].req.sessionId]
          /\ \/ /\ Truthy(TotpCode(p))
                /\ tfa[p].user.twoFactorAuthToken # NULL
                /\ TotpCode(p) = CurrentTotp(tfa[p].user.twoFactorAuthToken)
             \/ /\ RecoveryOnly(tfa[p].req)
                /\ RecoveryCode(p) \in tfa[p].user.twoFactorAuthRecoveryCodes
    /\ tfa[p].out = "token" => tfa[p].token # NoToken
    /\ tfa[p].out \in HandlerFailures \cup {"TooManyRequests", "passthrough"} =>
          tfa[p].token = NoToken

\* C4 witness: a request with a correct TOTP code and sessionId sess-A got a
\* session token carrying sess-A.
C4_Witness ==
  /\ Done(1)
  /\ tfa[1].out = "token"
  /\ Truthy(TotpCode(1))
  /\ tfa[1].req.sessionId = "sess-A"
  /\ tfa[1].token.sessionId = "sess-A"
  /\ tfa[1].token.scope = "session"

\* A step in which the invocation of slot p ends.
Ends(p) == tfa[p].pc # "done" /\ tfa'[p].pc = "done"

\* C5: a request that ends through the failure handler increments its
\* subject's counter exactly once (in the step that ends it, and in no other
\* step of the request), a request that ends otherwise leaves every counter
\* unchanged, and so each counter equals the number of requests of its window
\* that ended through the failure handler.
C5_FailuresCountedOnce ==
  /\ [](\A k \in TfaKeys : tfaCalls[k] = handled[k])
  /\ [][\A p \in Procs :
          tfa'[p] # tfa[p] =>
            IF Ends(p) /\ tfa'[p].out \in HandlerFailures
            THEN tfaCalls' = [tfaCalls EXCEPT ![tfa'[p].userId] = @ + 1]
            ELSE tfaCalls' = tfaCalls]_vars

\* C5 witness: after two failures of subject 1 a request has succeeded, and
\* the counter still stands at two.
C5_Witness ==
  /\ Done(1)
  /\ tfa[1].out = "token"
  /\ tfa[1].userId = 1
  /\ tfaCalls[1] = 2
  /\ handled[1] = 2

\* C6: a request that arrives when its subject's budget of 10 is used up ends
\* at once in TooManyRequests: no identity lookup, no code verification, no
\* change of the identity, no token, no further increment.
C6_ExhaustedShortCircuits ==
  [][\A p \in Procs :
       (/\ tfa[p].pc \in {"idle", "done"}
        /\ tfa'[p] # tfa[p]
        /\ tfaCalls[tfa'[p].userId] >= 10) =>
         /\ tfa'[p].pc = "done"
         /\ tfa'[p].out = "TooManyRequests"
         /\ tfa'[p].token = NoToken
         /\ tfa'[p].calls = <<"hasReachedLimit">>
         /\ users' = users
         /\ tfaCalls' = tfaCalls]_vars

\* C6 witness: with the counter of subject 1 at 10, a request carrying the
\* correct TOTP code ended in TooManyRequests.
C6_Witness ==
  /\ Done(1)
  /\ tfa[1].userId = 1
  /\ tfaCalls[1] = 10
  /\ tfa[1].out = "TooManyRequests"
  /\ users[1].twoFactorAuthToken # NULL
  /\ TotpCode(1) = CurrentTotp(users[1].twoFactorAuthToken)

\* C7 as claimed: for an existing identity, a request with neither code ends
\* in BadRequest and one with a recovery code that is not a string ends in
\* ValidationFailed. (Read in the claim's favour: the recovery code comes with
\* no TOTP code.)
C7_AsClaimed ==
  (Done(1) /\ Existing(1)) =>
    /\ (~Truthy(TotpCode(1)) /\ ~Truthy(RecoveryCode(1))) =>
          tfa[1].out = "BadRequest"
    /\ (/\ ~Truthy(TotpCode(1))
        /\ Truthy(RecoveryCode(1))
        /\ TypeOf(RecoveryCode(1)) # "string") =>
          tfa[1].out = "ValidationFailed"

\* C7 as amended: for an existing identity whose budget is not exhausted at
\* arrival, a request with neither code ends in BadRequest, and one with no
\* TOTP code and a recovery code that is not a string ends in ValidationFailed;
\* each of the two outcomes, like Unauthorized, adds exactly one to the
\* subject's counter, changes no identity and sends no token.
C7_MalformedInputCounts ==
  /\ [](Done(1) /\ Existing(1) /\ ~tfa[1].exhausted =>
         /\ (~Truthy(TotpCode(1)) /\ ~Truthy(RecoveryCode(1))) =>
               tfa[1].out = "BadRequest"
         /\ (/\ ~Truthy(TotpCode(1))
             /\ Truthy(RecoveryCode(1))
             /\ TypeOf(RecoveryCode(1)) # "string") =>
               tfa[1].out = "ValidationFailed")
  /\ [](Done(1) /\ tfa[1].out \in {"BadRequest", "ValidationFailed"} =>
         tfa[1].token = NoToken)
  /\ [][(tfa'[1] # tfa[1] /\ tfa'[1].out \in HandlerFailures) =>
         /\ Ends(1)
         /\ tfaCalls' = [tfaCalls EXCEPT ![tfa'[1].userId] = @ + 1]
         /\ users' = users
         /\ users[tfa'[1].userId] = tfa'[1].pre]_vars

\* C7 witness: a request with a recovery code that is not a string ended in
\* ValidationFailed and the counter of its subject stands at one.
C7_Witness ==
  /\ Done(1)
  /\ Existing(1)
  /\ RecoveryCode(1) = NonString
  /\ tfa[1].out = "ValidationFailed"
  /\ tfaCalls[tfa[1].userId] = 1

-----------------------------------------------------------------------------
(* Properties of signin *)

\* A step that is one signin invocation: its answer is in last', the state
\* before it in the unprimed variables.
SigninStep ==
  /\ last'.op = "signin"
  /\ signinCalls'[last'.req.ip] = signinCalls[last'.req.ip] + 1

\* The sign-in budget of the request's origin was used up before the request.
SigninExhausted == signinCalls[last'.req.ip] >= SigninLimit

\* The id of the identity whose address is the request's, lower-cased, before
\* the request (0 for none), and that identity.
Resolved ==
  LET email == ToLowerCase(last'.req.user.email)
  IN  IF \E i \in DOMAIN users : users[i].email = email
      THEN CHOOSE i \in DOMAIN users : users[i].email = email
      ELSE 0

ResolvedUser == IF Resolved = 0 THEN NoUser ELSE users[Resolved]

\* Second factor is enabled for the identity: the feature is switched on in
\* the configuration and the identity has a TOTP secret.
SecondFactorOn(u) ==
  /\ config.twoFactorAuthenticationEnabled \in {JsTrue, "true"}
  /\ u.twoFactorAuthToken # NULL

\* The request asks for neither a login link nor a password reset.
PlainSignin == last'.req.sendLink \notin {JsTrue} /\ last'.req.resetPassword \notin {JsTrue}

\* The request's password is the one the identity's hash was made from.
PasswordCorrect ==
  /\ last'.req.user.password \notin {Undefined, ""}
  /\ BcryptHash(last'.req.user.password) = ResolvedUser.passwordHash

\* The request is for an identity with a password and second factor enabled,
\* with the correct password and neither sendLink nor resetPassword.
C3_Case ==
  /\ Resolved # 0
  /\ ResolvedUser.passwordHash # NULL
  /\ SecondFactorOn(ResolvedUser)
  /\ PasswordCorrect
  /\ PlainSignin

\* C3 as claimed: such a request is answered with a token of scope
\* twofactorauth, and sign-in sends no session token for an identity that has
\* second factor enabled.
C3_AsClaimed ==
  [][SigninStep =>
       /\ C3_Case => last'.res.token.scope = "twofactorauth"
       /\ last'.res.token.scope = "session" => ~SecondFactorOn(ResolvedUser)]_vars

\* C3 as amended: such a request, when the sign-in budget of its origin is not
\* exhausted, is answered with a token of scope twofactorauth for the identity
\* (when it is exhausted, with 403 Rate limit exceeded and no token); sign-in
\* sends no session token for an identity that has second factor enabled.
C3_TwoFactorScopeOnSignin ==
  [][SigninStep =>
       /\ (C3_Case /\ ~SigninExhausted) =>
             /\ last'.res.status = 200
             /\ last'.res.kind = "token"
             /\ last'.res.token =
                  [sub |-> Resolved, scope |-> "twofactorauth", sessionId |-> Undefined]
       /\ (C3_Case /\ SigninExhausted) =>
             /\ last'.res.status = 403
             /\ last'.res.kind = "Rate limit exceeded"
             /\ last'.res.token = NoToken
       /\ last'.res.token.scope = "session" => ~SecondFactorOn(ResolvedUser)]_vars

\* C3 witness: ada (password, TOTP secret, feature on) signed in with her
\* password and got a token of scope twofactorauth.
C3_Witness ==
  /\ last.op = "signin"
  /\ last.req.user = [email |-> "ada@x.co", password |-> "ada-pw"]
  /\ config.twoFactorAuthenticationEnabled = JsTrue
  /\ last.res.token.scope = "twofactorauth"
  /\ last.res.token.sub = 1

\* C8: for an address that matches no identity, with createProfile false the
\* request ends in EMAIL_DOES_NOT_EXIST and the identities are unchanged; with
\* createProfile true (the default) it creates exactly one identity for that
\* address and ends in success, with no password challenge and no token.
\* (Read in the claim's favour: for a request the rate limiter admits.)
C8_UnknownEmail ==
  [][(SigninStep /\ Resolved = 0 /\ ~SigninExhausted) =>
       IF last'.req.createProfile = JsFalse
       THEN /\ last'.res.kind = "EMAIL_DOES_NOT_EXIST"
            /\ users' = users
       ELSE /\ \E i \in Ids \ DOMAIN users :
                 /\ DOMAIN users' = DOMAIN users \cup {i}
                 /\ users'[i].email = ToLowerCase(last'.req.user.email)
                 /\ \A j \in DOMAIN users : users'[j] = users[j]
            /\ last'.res.kind = "success"
            /\ last'.res.token = NoToken]_vars

\* The request is for an existing identity with a password, carries no
\* password and asks for neither a login link nor a password reset.
C9_Case ==
  /\ Resolved # 0
  /\ ResolvedUser.passwordHash # NULL
  /\ last'.req.user.password \in {Undefined, ""}
  /\ PlainSignin

\* C9 as claimed: such a request ends in PASSWORD_REQUIRED, with no token, no
\* notification and the identity unchanged.
C9_AsClaimed ==
  [][(SigninStep /\ C9_Case) =>
       /\ last'.res.kind = "PASSWORD_REQUIRED"
       /\ last'.res.token = NoToken
       /\ last'.sent = "none"
       /\ users' = users]_vars

\* C9 as amended: such a request, when the sign-in budget of its origin is not
\* exhausted, ends in PASSWORD_REQUIRED (when it is exhausted, in 403 Rate
\* limit exceeded); either way no token is sent, no notification is dispatched
\* and the identities are unchanged.
C9_PasswordRequired ==
  [][(SigninStep /\ C9_Case) =>
       /\ ~SigninExhausted =>
             /\ last'.res.status = 403
             /\ last'.res.kind = "PASSWORD_REQUIRED"
       /\ SigninExhausted =>
             /\ last'.res.status = 403
             /\ last'.res.kind = "Rate limit exceeded"
       /\ last'.res.token = NoToken
       /\ last'.sent = "none"
       /\ users' = users]_vars

\* C9 witness: bob, who has a password, signed in without one and was asked
\* for it.
C9_Witness ==
  /\ last.op = "signin"
  /\ last.req.user = [email |-> "Bob@X.co", password |-> Undefined]
  /\ last.req.sendLink = Undefined
  /\ last.req.resetPassword = Undefined
  /\ last.res.kind = "PASSWORD_REQUIRED"
  /\ last.sent = "none"

\* The request is for an existing identity with a password, asks for neither
\* a login link nor a password reset, and carries a password that does not
\* match.
C10_Mismatch ==
  /\ Resolved # 0
  /\ ResolvedUser.passwordHash # NULL
  /\ PlainSignin
  /\ last'.req.user.password \notin {Undefined, ""}
  /\ BcryptHash(last'.req.user.password) # ResolvedUser.passwordHash

\* The only case in which sign-in may answer with a token.
C10_TokenOnlyIf ==
  last'.res.token # NoToken =>
    /\ Resolved # 0
    /\ ResolvedUser.passwordHash # NULL
    /\ PlainSignin
    /\ PasswordCorrect

\* C10 as claimed: sign-in answers with a token only for an identity with a
\* password, a request that is neither sendLink nor resetPassword and a
\* matching password; a password that does not match ends in the invalid-
\* credentials failure, with no token and no notification.
C10_AsClaimed ==
  [][SigninStep =>
       /\ C10_TokenOnlyIf
       /\ C10_Mismatch =>
             /\ last'.res.kind = "Invalid password"
             /\ last'.res.token = NoToken
             /\ last'.sent = "none"]_vars

\* C10 as amended: the same, where a password that does not match ends in the
\* invalid-credentials failure when the sign-in budget of the origin is not
\* exhausted, and in 403 Rate limit exceeded when it is; no token and no
\* notification either way.
C10_TokenNeedsPassword ==
  [][SigninStep =>
       /\ C10_TokenOnlyIf
       /\ C10_Mismatch =>
             /\ ~SigninExhausted =>
                   /\ last'.res.status = 401
                   /\ last'.res.kind = "Invalid password"
             /\ SigninExhausted => last'.res.kind = "Rate limit exceeded"
             /\ last'.res.token = NoToken
             /\ last'.sent = "none"]_vars

\* C10 witness: a sign-in for bob with ada's password ended in Invalid
\* password.
C10_Witness ==
  /\ last.op = "signin"
  /\ last.req.user = [email |-> "Bob@X.co", password |-> "ada-pw"]
  /\ last.res.status = 401
  /\ last.res.kind = "Invalid password"
  /\ last.res.token = NoToken

-----------------------------------------------------------------------------
(* Properties of exists *)

\* A step that is one exists invocation: its answer is in last', the state
\* before it in the unprimed variables.
ExistsStep ==
  /\ last'.op = "exists"
  /\ \/ last' # last
     \/ searchCalls'[last'.req.ip] = searchCalls[last'.req.ip] + 1

\* The address of the request is well-formed.
ExistsWellFormed == ToLowerCase(last'.req.email) \in {"ada@x.co", "bob@x.co", "nobody@x.co"}

\* The email-search budget of the request's origin was used up before the
\* request.
SearchExhausted == searchCalls[last'.req.ip] >= SearchLimit

\* An identity with the lower-cased address of the request exists.
ExistsPresence ==
  \E i \in DOMAIN users : users[i].email = ToLowerCase(last'.req.email)

\* C11: an existence check for a well-formed address whose origin's
\* email-search budget is exhausted is still answered: the caller receives
\* {exists: <presence>} for the address.
C11_ExhaustedStillAnswered ==
  [][(ExistsStep /\ ExistsWellFormed /\ SearchExhausted) =>
       last'.res = ExistsBody(ExistsPresence)]_vars

\* C12: an existence check changes no identity, and two checks of the same
\* well-formed address with nothing in between return the same boolean, equal
\* to whether an identity with the lower-cased address exists.
C12_ReadOnlyRepeatable ==
  [][ExistsStep =>
       /\ users' = users
       /\ (/\ last.op = "exists"
           /\ ExistsWellFormed
           /\ ToLowerCase(last.req.email) = ToLowerCase(last'.req.email)) =>
             /\ last'.res = last.res
             /\ last'.res = ExistsBody(ExistsPresence)]_vars

-----------------------------------------------------------------------------
(* Properties of updateToken *)

\* A step that is one updateToken invocation.
UpdateTokenStep == last'.op = "updateToken" /\ last' # last

\* The sessionId of the incoming token, none when there is none.
IncomingSessionId ==
  IF last'.req.jwtPayload.present THEN last'.req.jwtPayload.sessionId ELSE Undefined

\* C13: token refresh for an authenticated identity answers with one token for
\* that identity: of scope twofactorauth (and no session token) if second
\* factor is enabled for the identity (the feature is switched on and the
\* identity has a TOTP secret), of scope session otherwise; either way the
\* token carries the sessionId of the incoming token, or none when the
\* incoming token had none.
C13_RefreshScopeAndSession ==
  [][UpdateTokenStep =>
       /\ last'.sends = <<last'.res>>
       /\ last'.res.status = 200
       /\ last'.res.kind = "token"
       /\ last'.res.token.sub = last'.req.remoteUser
       /\ last'.res.token.sessionId = IncomingSessionId
       /\ last'.res.token.scope =
            IF SecondFactorOn(users[last'.req.remoteUser])
            THEN "twofactorauth" ELSE "session"
       /\ users' = users]_vars

\* C13 witness: ada, who has second factor enabled, refreshed a token of
\* session sess-A and got a twofactorauth token of that session.
C13_Witness ==
  /\ last.op = "updateToken"
  /\ last.req.remoteUser = 1
  /\ last.req.jwtPayload = [present |-> TRUE, sessionId |-> "sess-A"]
  /\ last.res.token = [sub |-> 1, scope |-> "twofactorauth", sessionId |-> "sess-A"]

-----------------------------------------------------------------------------
(* Properties of the link flows of signin *)

\* The invocation went into the password-reset or the login-link branch: it
\* called emailLib.send.
CalledNotifier ==
  \E i \in 1..Len(last'.calls) : last'.calls[i] = "emailLib.send"

\* C14: in the password-reset and login-link branches of sign-in the request
\* ends in the generic success response whether or not the notifier delivered
\* the email.
C14_DeliveryFailureStillSuccess ==
  [][(SigninStep /\ CalledNotifier) =>
       /\ last'.res.status = 200
       /\ last'.res.kind = "success"]_vars

\* The request asks for a login link or for a password reset.
AsksForLink == last'.req.sendLink = JsTrue \/ last'.req.resetPassword = JsTrue

\* The directory that differs from the present one only in that no identity
\* has the address of the request.
DirectoryWithout ==
  [i \in DOMAIN users \ {Resolved} |-> users[i]]

\* What the caller would have received for the same request, with the same
\* rate-limit count and the same outcome of the notifier, had no identity with
\* the address existed.
ResponseWithout ==
  SigninResult(DirectoryWithout, signinCalls[last'.req.ip], last'.req,
               last'.delivered).last.res

\* C15 as claimed: a login-link or password-reset request gets the same
\* response whether or not an identity with the address exists. (Read in the
\* claim's favour: for requests whose email the notifier delivers.)
C15_AsClaimed ==
  [][(SigninStep /\ Resolved # 0 /\ AsksForLink /\ last'.delivered) =>
       last'.res = ResponseWithout]_vars

\* C15 as amended: a login-link or password-reset request that leaves
\* createProfile at true (the default) gets the same response whether or not
\* an identity with the address exists: the generic success when the request
\* is admitted and the notifier delivers. With createProfile false the
\* response for an address without identity is EMAIL_DOES_NOT_EXIST, and so
\* differs whenever the request for the existing identity is admitted.
C15_LinkFlowsHideExistence ==
  [][(SigninStep /\ Resolved # 0 /\ AsksForLink) =>
       /\ last'.req.createProfile # JsFalse =>
             /\ last'.res = ResponseWithout
             /\ (~SigninExhausted /\ last'.delivered) =>
                   /\ last'.res.status = 200
                   /\ last'.res.kind = "success"
       /\ (last'.req.createProfile = JsFalse /\ ~SigninExhausted) =>
             /\ ResponseWithout.kind = "EMAIL_DOES_NOT_EXIST"
             /\ last'.res # ResponseWithout]_vars

\* C15 witness: a login link was requested for ada, createProfile left at its
\* default, and the request ended in the generic success.
C15_Witness ==
  /\ last.op = "signin"
  /\ last.req.user.email = "ada@x.co"
  /\ last.req.sendLink = JsTrue
  /\ last.req.createProfile = Undefined
  /\ last.userId = 1
  /\ last.res.kind = "success"

-----------------------------------------------------------------------------
(* Further properties of twoFactorAuthAndUpdateToken *)

\* The invocation in slot p called user.update as the call before its last.
UpdatedBeforeLastCall(p) ==
  /\ Len(tfa[p].calls) >= 2
  /\ tfa[p].calls[Len(tfa[p].calls) - 1] = "update"
  /\ tfa[p].calls[Len(tfa[p].calls)] = "generateSessionToken"

\* The step in which user.update of slot p fails.
UpdateFails(p) == tfa[p].pc = "update" /\ tfa'[p].pc = "done"

\* C16: on the recovery-code path, when the update that clears the recovery
\* codes and the TOTP secret fails, the request fails: no session token is
\* sent, no success is reported and the identity is as before; a request that
\* presented a recovery code alone holds a session token only after its update
\* completed, with the identity's recovery codes and TOTP secret cleared in
\* the store.
C16_TokenOnlyAfterUpdate ==
  /\ [](\A p \in Procs :
         (Done(p) /\ RecoveryOnly(tfa[p].req) /\ tfa[p].token # NoToken) =>
           /\ tfa[p].out = "token"
           /\ UpdatedBeforeLastCall(p)
           /\ Cleared(users[tfa[p].userId]))
  /\ [][\A p \in Procs :
          UpdateFails(p) =>
            /\ tfa'[p].out = "rejected"
            /\ tfa'[p].token = NoToken
            /\ users' = users
            /\ recTokens' = recTokens]_vars

\* C16 witness: a request with a correct recovery code whose update failed
\* ended without token, the identity keeping its recovery codes and secret.
C16_Witness ==
  /\ Done(1)
  /\ RecoveryOnly(tfa[1].req)
  /\ PresentsCorrectRecoveryCode(1)
  /\ tfa[1].out = "rejected"
  /\ tfa[1].token = NoToken
  /\ ~Cleared(users[tfa[1].userId])

-----------------------------------------------------------------------------
(* Properties of all handlers *)

\* The calls that look an identity up, create one, verify a credential or a
\* code, issue a token or dispatch a notification; and the limiter's calls.
GuardedCalls ==
  {"findOne", "findByPk", "createUserWithCollective", "bcrypt.compare",
   "validateTOTPToken", "verifyTwoFactorAuthenticationRecoveryCode",
   "jwt", "generateSessionToken", "emailLib.send"}

LimiterCalls == {"registerCall", "hasReachedLimit"}

\* C17: every invocation of exists, signin or updateToken consults the rate
\* limiter before any identity lookup, identity creation, credential
\* verification, token issuance or notification, and makes none of these
\* calls when the limiter reports the limit exceeded.
C17_LimiterFirst ==
  last.op # "none" =>
    /\ \A i \in 1..Len(last.calls) :
         last.calls[i] \in GuardedCalls =>
           \E j \in 1..(i - 1) : last.calls[j] \in LimiterCalls
    /\ last.res.kind = "Rate limit exceeded" =>
         \A i \in 1..Len(last.calls) : last.calls[i] \notin GuardedCalls

-----------------------------------------------------------------------------
(* Properties of concurrent twoFactorAuthAndUpdateToken invocations *)

\* The requests of subject k now between their code check and the failure
\* handler's registerCall: checked, found wrong, not yet counted.
WrongUncounted(k) ==
  {p \in Procs : tfa[p].userId = k /\ tfa[p].pc = "fail" /\ tfa[p].exc = "Unauthorized"}

\* C18: under any interleaving, the requests of one subject whose code was
\* checked and found wrong within one window of the limiter (those the
\* failure handler has counted, and those it is about to count) never exceed
\* the budget of 10. Every failure of the requests served here is a wrong
\* code.
C18_GuessesWithinBudget ==
  \A k \in TfaKeys : handled[k] + Cardinality(WrongUncounted(k)) <= 10

\* C19: every invocation of exists, signin or updateToken that has completed
\* has had exactly one outcome: one response sent, or one error handed to the
\* next handler.
C19_ExactlyOneOutcome ==
  last.op # "none" =>
    Len(last.sends)
      + Cardinality({i \in 1..Len(last.calls) : last.calls[i] = "next"}) = 1

-----------------------------------------------------------------------------
(* Properties of the TOTP path of twoFactorAuthAndUpdateToken *)

\* The invocation in slot p made the call named c.
Called(p, c) == \E i \in 1..Len(tfa[p].calls) : tfa[p].calls[i] = c

\* The outcome the TOTP code alone gives a request: that of the pre-check, of
\* the lookup, and of the check of the TOTP code against the stored secret.
TotpOutcome(p) ==
  IF tfa[p].exhausted THEN "TooManyRequests"
  ELSE IF ~Existing(p) THEN "passthrough"
  ELSE IF tfa[p].pre.twoFactorAuthToken = "SECRET-1" /\ TotpCode(p) = "492039"
  THEN "token"
  ELSE "Unauthorized"

\* C20: when a TOTP code is supplied, with or without a recovery code, the
\* outcome is the one the TOTP code alone gives; the recovery code is not
\* examined and the identity is left as it was, whether the TOTP check
\* succeeds or fails. An identity's fields change only in the update of a
\* request that presented a recovery code alone, a string in the identity's
\* recovery set, and then both the recovery set and the TOTP secret are
\* cleared.
C20_TotpPathAlone ==
  /\ [](\A p \in Procs :
         (Done(p) /\ TotpCode(p) \notin {Undefined, ""}) =>
           /\ tfa[p].out = TotpOutcome(p)
           /\ ~Called(p, "verifyTwoFactorAuthenticationRecoveryCode")
           /\ ~Called(p, "update")
           /\ Existing(p) => users[tfa[p].userId] = tfa[p].pre)
  /\ [][users' # users =>
          \E p \in Procs :
            /\ tfa[p].pc = "update"
            /\ TotpCode(p) \in {Undefined, ""}
            /\ RecoveryCode(p) \in users[tfa[p].userId].twoFactorAuthRecoveryCodes
            /\ users' = [users EXCEPT
                           ![tfa[p].userId].twoFactorAuthRecoveryCodes = NullCodes,
                           ![tfa[p].userId].twoFactorAuthToken = NULL]]_vars

\* C20 witness: a request with a wrong TOTP code and a correct recovery code
\* ended in Unauthorized, the identity keeping its recovery codes and secret.
C20_Witness ==
  /\ Done(1)
  /\ TotpCode(1) = "000000"
  /\ RecoveryCode(1) = "RC-1"
  /\ tfa[1].userId = 1
  /\ tfa[1].out = "Unauthorized"
  /\ users[1] = InitialUsers[1]

====
